---- MODULE Spec2Model ----
(***************************************************************************)
(* Model of src/bot.js: a Discord bot that posts crypto news to a channel, *)
(* keeps the ids of the posted items in a bounded insertion-ordered Set    *)
(* (config.postedNewsIds), shows the Bitcoin price in its presence and     *)
(* answers the "!crypto" commands.                                         *)
(*                                                                         *)
(* Node runs one callback at a time; a callback gives up control only at   *)
(* an await.  Each action below is one such run-to-suspension segment of a *)
(* callback: from its start, or from the resolution of the promise it is   *)
(* awaiting, up to the next await or the end of the callback.              *)
(***************************************************************************)
EXTENDS Integers, Sequences, FiniteSets, TLC

(* ---------------------------------------------------------------------- *)
(* Program constants (config, src/bot.js:20-34)                            *)
(* ---------------------------------------------------------------------- *)
MAX_STORED_NEWS_IDS == 100
NEWS_POSTS_PER_UPDATE == 3

(* ---------------------------------------------------------------------- *)
(* Bounds of the model                                                     *)
(* ---------------------------------------------------------------------- *)
\* news cycles (fetchAndPostNews invocations) started in one behaviour; the
\* code does not limit how many of them are in flight at once, and neither
\* does the model
MaxCycles == 2
\* updateBitcoinPrice invocations started in one behaviour
MaxPriceUpdates == 2
\* messageCreate events handled in one behaviour
MaxMessages == 2
\* ids the news API may return that are not in an aged ledger
NumFresh == 4

\* cycle i runs in slot i
Slots == 1..MaxCycles

Range(s) == {s[k] : k \in 1..Len(s)}

Min(a, b) == IF a < b THEN a ELSE b

(* ---------------------------------------------------------------------- *)
(* The ledger: config.postedNewsIds, a JavaScript Set.  A Set iterates in  *)
(* insertion order, so it is a sequence without repetitions, oldest first. *)
(* ---------------------------------------------------------------------- *)
\* config.postedNewsIds.has(id)
LedgerHas(s, id) == id \in Range(s)

\* config.postedNewsIds.add(id): adding a present value changes nothing
LedgerAddNothing(s, id) == s
LedgerAdd(s, id) == IF LedgerHas(s, id) THEN s ELSE Append(s, id)

\* the size check of line 138
OverCapacity(s) == Len(s) > MAX_STORED_NEWS_IDS

\* iterator.next().value of a fresh values() iterator: the first value
Oldest(s) == s[1]

\* config.postedNewsIds.delete(v)
LedgerDelete(s, v) == SelectSeq(s, LAMBDA x : x # v)

\* lines 138-141
LedgerTrimNoop(s) == s
LedgerTrimNewest(s) == IF OverCapacity(s) THEN LedgerDelete(s, s[Len(s) - 1]) ELSE s
LedgerTrim(s) == IF OverCapacity(s) THEN LedgerDelete(s, Oldest(s)) ELSE s

\* the ledger of a process that has posted the ids 1..n so far, in that order
Aged(n) == [k \in 1..n |-> k]

(* ---------------------------------------------------------------------- *)
(* What the news endpoint may answer                                       *)
(* ---------------------------------------------------------------------- *)
\* a news item: its id, and whether it carries the source object that
\* line 124 dereferences
Item(id) == [id |-> id, source |-> TRUE]
NoSource(id) == [id |-> id, source |-> FALSE]

\* the first id that no aged ledger holds
F == MAX_STORED_NEWS_IDS

Fresh(lo, hi) == [k \in 1..(hi - lo + 1) |-> Item(F + lo + k - 1)]

\* Lists of distinct items, each a results array: the empty one, one of new
\* items only, and one that mixes new items, the oldest id of an aged ledger
\* and an item without a source.
ResultLists ==
    { <<>>,
      Fresh(1, NumFresh + 1),
      <<Item(F + 1), Item(F + 2), Item(1), NoSource(F + 3)>> }

\* the value of `data` after `await response.json()`: a decoded value that
\* is null, an object without results, or an object with a results array
NullData == [isNull |-> TRUE, hasResults |-> FALSE, results |-> <<>>]
NoResults == [isNull |-> FALSE, hasResults |-> FALSE, results |-> <<>>]
WithResults(r) == [isNull |-> FALSE, hasResults |-> TRUE, results |-> r]

\* the ids the news endpoint can return
ApiIds == UNION {{r[k].id : k \in 1..Len(r)} : r \in ResultLists}

NewsData == {NullData, NoResults} \cup {WithResults(r) : r \in ResultLists}

\* !data || !data.results (line 107)
NewsDataUnusable(data) == data.isNull \/ ~data.hasResults


(* ---------------------------------------------------------------------- *)
(* State                                                                   *)
(* ---------------------------------------------------------------------- *)
VARIABLES
    ready,        \* the 'ready' event has fired: timers installed (37-50)
    ledger,       \* config.postedNewsIds, oldest first (32)
    news,         \* per slot: one fetchAndPostNews invocation (87-155)
    cycles,       \* news cycles started so far
    apiCalls,     \* calls of the news endpoint so far (104)
    uptime,       \* ids posted before the behaviour starts: 1..uptime, in order
    inserted,     \* ids that entered the ledger so far
    insertedAt,   \* id -> value of `inserted` when it last entered the ledger,
                  \* for the ids that entered it since the behaviour started
    presentAdds,  \* add() calls whose argument was already in the ledger
    price,        \* the updateBitcoinPrice invocation in flight (53-84)
    presence,     \* what client.user.setActivity was last given (73)
    priceUpdates, \* updateBitcoinPrice invocations started so far
    handler,      \* the messageCreate handler in flight (158-210)
    messages,     \* messageCreate events so far
    timers,       \* how often setInterval (45) and newsJob.start (49) ran
    priceGot,     \* how the last updateBitcoinPrice to return ended
    unhandled     \* rejected promises that nothing handles

newsVars == <<ledger, news, cycles, apiCalls, uptime, inserted, insertedAt,
              presentAdds>>
priceVars == <<price, presence, priceUpdates, priceGot>>
cmdVars == <<handler, messages, unhandled>>
vars == <<ready, timers, newsVars, priceVars, cmdVars>>

(* ---------------------------------------------------------------------- *)
(* fetchAndPostNews (87-155)                                               *)
(* ---------------------------------------------------------------------- *)
\* One invocation.  pc: "idle" (not running: returned, or never started),
\* "fetch" (awaiting fetch, 104), "json" (awaiting response.json(), 105),
\* "send" (awaiting newsChannel.send, 132).  results, idx, postedCount are
\* data.results, the position of newsItem in it, and postedCount.  The other
\* fields record what the invocation did: no, its number; found, whether it
\* resolved the channel; calls, its calls of the news endpoint; sends, its
\* calls of send; sent, the ids whose send succeeded, which are the embeds
\* it delivered to the channel, in order; added, the ids it gave
\* to add(); startIds, the ids in the ledger when it began, of those the
\* endpoint can return; evicted, the ids deleted from the ledger while it
\* ran, of those the endpoint can return.
NotStarted ==
    [pc |-> "idle", no |-> 0, found |-> FALSE, calls |-> 0, results |-> <<>>,
     idx |-> 0, postedCount |-> 0, sends |-> 0, sent |-> <<>>, added |-> <<>>,
     startIds |-> {}, evicted |-> {}]

\* return, or the catch of 152-154: the loop's locals are gone; results
\* stays as the record of what the invocation received
Finished(n) == [n EXCEPT !.pc = "idle", !.idx = 0, !.postedCount = 0]

\* the loop head with the skip of 115-117: the position of the first item
\* from k on that the ledger does not hold, 0 when there is none
NextUnseenAny(r, k, s) == IF k <= Len(r) THEN k ELSE 0
NextUnseen(r, k, s) ==
    LET unseen == {j \in k..Len(r) : ~LedgerHas(s, r[j].id)}
    IN  IF unseen = {} THEN 0 ELSE CHOOSE j \in unseen : \A h \in unseen : j <= h

\* the break of 146-148
ReachedCapLate(postedCount) == postedCount > NEWS_POSTS_PER_UPDATE
ReachedCap(postedCount) == postedCount >= NEWS_POSTS_PER_UPDATE

\* The loop from item k on (113-132), with the ledger s, up to the call of
\* send or the end of the function.  Building the embed of an item without
\* a source throws at 124; the catch of 152 ends the invocation.
IterateLast(n, k, s) ==
    LET unseen == {j \in 1..Len(n.results) : ~LedgerHas(s, n.results[j].id)}
        j == IF unseen = {} THEN 0
             ELSE CHOOSE h \in unseen : \A g \in unseen : g <= h
    IN  IF j = 0 THEN Finished(n)
        ELSE IF ~n.results[j].source THEN Finished(n)
        ELSE [n EXCEPT !.pc = "send", !.idx = j, !.sends = @ + 1]
Iterate(n, k, s) ==
    LET j == NextUnseen(n.results, k, s)
    IN  IF j = 0 THEN Finished(n)
        ELSE IF ~n.results[j].source THEN Finished(n)
        ELSE [n EXCEPT !.pc = "send", !.idx = j, !.sends = @ + 1]

\* 89-93: client.channels.cache.get found no channel
ChannelMissingIgnored(found) == FALSE
ChannelMissing(found) == ~found

\* The start of invocation i (88-104): the channel lookup, then the call of
\* fetch.
StartNews(i, found) ==
    /\ i = cycles + 1
    /\ cycles' = i
    /\ LET n == [NotStarted EXCEPT !.no = i, !.found = found,
                                   !.startIds = ApiIds \cap Range(ledger)]
       IN  IF ChannelMissing(found)
           THEN /\ news' = [news EXCEPT ![i] = n]
                /\ apiCalls' = apiCalls
           ELSE /\ news' = [news EXCEPT ![i] = [n EXCEPT !.pc = "fetch", !.calls = 1]]
                /\ apiCalls' = apiCalls + 1
    /\ UNCHANGED <<ledger, uptime, inserted, insertedAt, presentAdds>>

\* `await fetch(...)` settles (104): a response, or a transport failure that
\* the catch of 152 takes
NewsFetchSettlesRetry(i, ok) ==
    /\ news[i].pc = "fetch"
    /\ news' = [news EXCEPT ![i] =
                  IF ok THEN [@ EXCEPT !.pc = "json"]
                  ELSE IF @.calls < 2 THEN [@ EXCEPT !.calls = @ + 1]
                  ELSE Finished(@)]
    /\ UNCHANGED <<ready, timers, ledger, cycles, apiCalls, uptime, inserted,
                   insertedAt, presentAdds, priceVars, cmdVars>>
NewsFetchSettles(i, ok) ==
    /\ news[i].pc = "fetch"
    /\ news' = [news EXCEPT ![i] = IF ok THEN [@ EXCEPT !.pc = "json"] ELSE Finished(@)]
    /\ UNCHANGED <<ready, timers, ledger, cycles, apiCalls, uptime, inserted, insertedAt,
                   presentAdds, priceVars, cmdVars>>

\* `await response.json()` rejects (105): the body does not decode
NewsDecodeFails(i) ==
    /\ news[i].pc = "json"
    /\ news' = [news EXCEPT ![i] = Finished(@)]
    /\ UNCHANGED <<ready, timers, ledger, cycles, apiCalls, uptime, inserted, insertedAt,
                   presentAdds, priceVars, cmdVars>>

\* `await response.json()` resolves with data (105-132)
NewsDecoded(i, data) ==
    /\ news[i].pc = "json"
    /\ news' = [news EXCEPT ![i] =
                  IF NewsDataUnusable(data) THEN Finished(@)
                  ELSE Iterate([@ EXCEPT !.results = data.results], 1, ledger)]
    /\ UNCHANGED <<ready, timers, ledger, cycles, apiCalls, uptime, inserted, insertedAt,
                   presentAdds, priceVars, cmdVars>>

\* `await newsChannel.send(...)` rejects (132): the catch of 152 ends the
\* invocation
NewsSendFailsAdded(i) ==
    /\ news[i].pc = "send"
    /\ LET id == news[i].results[news[i].idx].id
       IN  /\ news' = [news EXCEPT ![i] = Finished([@ EXCEPT !.added = Append(@, id)])]
           /\ ledger' = LedgerAdd(ledger, id)
    /\ UNCHANGED <<ready, timers, cycles, apiCalls, uptime, inserted, insertedAt,
                   presentAdds, priceVars, cmdVars>>
NewsSendFails(i) ==
    /\ news[i].pc = "send"
    /\ news' = [news EXCEPT ![i] = Finished(@)]
    /\ UNCHANGED <<ready, timers, ledger, cycles, apiCalls, uptime, inserted, insertedAt,
                   presentAdds, priceVars, cmdVars>>

\* `await newsChannel.send(...)` resolves (132-149): the id is added, the
\* ledger trimmed, postedCount incremented, and the loop goes on
NewsSent(i) ==
    /\ news[i].pc = "send"
    /\ \E id \in {news[i].results[news[i].idx].id} :
       \E added \in {LedgerAdd(ledger, id)} :
       \E trimmed \in {LedgerTrim(added)} :
       \E n1 \in {[news[i] EXCEPT !.sent = Append(@, id), !.added = Append(@, id),
                                  !.postedCount = @ + 1]} :
       LET n == news[i]
           was == LedgerHas(ledger, id)
           gone == (ApiIds \cap Range(added)) \ Range(trimmed)
           n2 == IF ReachedCap(n1.postedCount) THEN Finished(n1)
                 ELSE Iterate(n1, n.idx + 1, trimmed)
       IN  /\ ledger' = trimmed
           /\ presentAdds' = IF was THEN presentAdds + 1 ELSE presentAdds
           /\ inserted' = IF was THEN inserted ELSE inserted + 1
           /\ insertedAt' = IF was THEN insertedAt
                            ELSE [x \in DOMAIN insertedAt \cup {id} |->
                                    IF x = id THEN inserted + 1 ELSE insertedAt[x]]
           /\ uptime' = uptime
           /\ news' = [j \in Slots |->
                         LET m == IF j = i THEN n2 ELSE news[j]
                         IN  IF j = i \/ news[j].pc # "idle"
                             THEN [m EXCEPT !.evicted = @ \cup gone]
                             ELSE m]
    /\ UNCHANGED <<ready, timers, cycles, apiCalls, priceVars, cmdVars>>


(* ---------------------------------------------------------------------- *)
(* What the currencies endpoint may answer                                 *)
(* ---------------------------------------------------------------------- *)
\* a currency record: whether it has a price_usd field, and its value
Priced(p) == [hasPrice |-> TRUE, price_usd |-> p]
Unpriced == [hasPrice |-> FALSE, price_usd |-> 0]

PriceData ==
    {NullData, NoResults, WithResults(<<>>), WithResults(<<Unpriced>>),
     WithResults(<<Priced(0)>>), WithResults(<<Priced(65000)>>),
     WithResults(<<Priced(65000), Unpriced>>), WithResults(<<Unpriced, Priced(65000)>>)}

\* data && data.results && data.results.length > 0 (65, 185)
HasRecord(data) == ~data.isNull /\ data.hasResults /\ Len(data.results) > 0

\* if (btcData.price_usd) (67): absent and 0 are both falsy
PriceTruthyAlways(btc) == TRUE
PriceTruthy(btc) == btc.hasPrice /\ btc.price_usd # 0

\* btcData.price_usd.toLocaleString() (192) throws a TypeError when price_usd
\* is undefined; the other fields go through Math.abs and Math.round, which
\* take undefined to NaN without throwing
RenderThrows(btc) == ~btc.hasPrice

(* ---------------------------------------------------------------------- *)
(* updateBitcoinPrice (53-84).  Invocations share nothing but the presence, *)
(* which each sets in one step; one invocation in flight is modelled.      *)
(* ---------------------------------------------------------------------- *)
NoActivity == [set |-> FALSE, usd |-> 0]

\* how an invocation ended: got is "none" (none has returned), "fetchFailed",
\* "decodeFailed", "decoded" or "activityFailed"; data is what it decoded
Ended(got, data) == [got |-> got, data |-> data]

\* 54-62: up to the call of fetch
StartPrice ==
    /\ price = "idle"
    /\ priceUpdates < MaxPriceUpdates
    /\ price' = "fetch"
    /\ priceUpdates' = priceUpdates + 1
    /\ presence' = presence
    /\ priceGot' = priceGot

\* `await fetch(...)` settles (62): a response, or a failure caught at 81
PriceFetchSettles(ok) ==
    /\ price = "fetch"
    /\ price' = IF ok THEN "json" ELSE "idle"
    /\ priceGot' = IF ok THEN priceGot ELSE Ended("fetchFailed", NullData)
    /\ UNCHANGED <<ready, timers, newsVars, presence, priceUpdates, cmdVars>>

\* `await response.json()` rejects (63), caught at 81
PriceDecodeFails ==
    /\ price = "json"
    /\ price' = "idle"
    /\ priceGot' = Ended("decodeFailed", NullData)
    /\ UNCHANGED <<ready, timers, newsVars, presence, priceUpdates, cmdVars>>

\* `await response.json()` resolves with data (63-80)
PriceDecodedClears(data) ==
    /\ price = "json"
    /\ price' = "idle"
    /\ presence' = IF HasRecord(data) /\ PriceTruthy(data.results[1])
                   THEN [set |-> TRUE, usd |-> data.results[1].price_usd]
                   ELSE presence
    /\ priceGot' = Ended("decoded", data)
    /\ ledger' = <<>>
    /\ UNCHANGED <<ready, timers, news, cycles, apiCalls, uptime, inserted,
                   insertedAt, presentAdds, priceUpdates, cmdVars>>
PriceDecoded(data) ==
    /\ price = "json"
    /\ price' = "idle"
    /\ presence' = IF HasRecord(data) /\ PriceTruthy(data.results[1])
                   THEN [set |-> TRUE, usd |-> data.results[1].price_usd]
                   ELSE presence
    /\ priceGot' = Ended("decoded", data)
    /\ UNCHANGED <<ready, timers, newsVars, priceUpdates, cmdVars>>

\* `await response.json()` resolves with a priced record and
\* client.user.setActivity throws (73): caught at 81, the presence stays
PriceActivityFails(data) ==
    /\ price = "json"
    /\ HasRecord(data) /\ PriceTruthy(data.results[1])
    /\ price' = "idle"
    /\ priceGot' = Ended("activityFailed", data)
    /\ UNCHANGED <<ready, timers, newsVars, presence, priceUpdates, cmdVars>>

(* ---------------------------------------------------------------------- *)
(* The messageCreate handler (158-210)                                     *)
(* ---------------------------------------------------------------------- *)
\* message.content is a sequence of characters
Space == <<" ">>
Prefix == <<"!", "c", "r", "y", "p", "t", "o">>
Help == <<"h", "e", "l", "p">>
Price == <<"p", "r", "i", "c", "e">>
News == <<"n", "e", "w", "s">>
Bogus == <<"b", "o", "g", "u", "s">>

\* the white space String.prototype.trim removes
WhiteSpace == {" ", "\t", "\n"}

Contents ==
    { Prefix \o Space \o Help,
      Prefix \o Space \o Price,
      Prefix \o Space \o News,
      Prefix \o Help,
      Prefix \o <<" ", "\t">> \o News \o <<"\n">>,
      Prefix,
      Prefix \o Space,
      Prefix \o Space \o Bogus,
      Prefix \o Space \o Help \o Space \o News,
      Prefix \o Space \o <<"H">> \o Tail(Help),
      Prefix \o Space \o Price \o Space,
      Prefix \o <<"\n">> \o Help,
      Prefix \o Space \o Price \o <<"s">>,
      <<"!">> \o Prefix \o Space \o News,
      Prefix \o <<"-">> \o News,
      Space \o Prefix \o Space \o Help,
      Price,
      <<>> }

Messages == [bot : BOOLEAN, content : Contents]

\* message.content.startsWith(p) (163)
StartsWith(c, p) == Len(c) >= Len(p) /\ SubSeq(c, 1, Len(p)) = p

\* message.content.slice(k) (164)
Slice(c, k) == SubSeq(c, k + 1, Len(c))

\* String.prototype.trim (164)
RECURSIVE TrimStart(_)
TrimStart(c) == IF c # <<>> /\ Head(c) \in WhiteSpace THEN TrimStart(Tail(c)) ELSE c

RECURSIVE TrimEnd(_)
TrimEnd(c) ==
    IF c # <<>> /\ c[Len(c)] \in WhiteSpace THEN TrimEnd(SubSeq(c, 1, Len(c) - 1)) ELSE c

TrimNothing(c) == c
Trim(c) == TrimEnd(TrimStart(c))

\* const command = message.content.slice(7).trim() (164)
Command(c) == Trim(Slice(c, 7))

\* the replies (167-172, 198, 200 and 204, 207)
HelpReply == [kind |-> "help", usd |-> 0]
CardReply(btc) == [kind |-> "card", usd |-> btc.price_usd]
ApologyReply == [kind |-> "apology", usd |-> 0]
NewsReply == [kind |-> "news", usd |-> 0]

\* pc: "idle", "fetch" (awaiting fetch, 182), "json" (awaiting
\* response.json(), 183); msg, the message being handled; replies, the
\* message.reply calls made for it; got, how the currency fetch ended
\* ("none", "fetchFailed", "decodeFailed", "decoded") and data, what it
\* decoded to; escaped, whether an exception left the handler; replyPending,
\* whether the promise of its message.reply call has yet to settle
NoMessage ==
    [pc |-> "idle", msg |-> [bot |-> FALSE, content |-> <<>>], replies |-> <<>>,
     got |-> "none", data |-> NullData, escaped |-> FALSE, replyPending |-> FALSE]

\* message.reply(r) (167, 198, 200, 204, 207): the call returns a promise
\* that the handler neither awaits nor gives a catch, and the handler ends
Replied(h, r) ==
    [h EXCEPT !.pc = "idle", !.replies = Append(@, r), !.replyPending = TRUE]

\* if (message.author.bot) return (160)
IgnoredAuthor(m) == m.bot

\* the catch of 202-205
PriceFailedEscapes(h) == [h EXCEPT !.pc = "idle", !.escaped = TRUE]
PriceFailed(h) == Replied(h, ApologyReply)

\* a message arrives (158-182): up to the end of the handler, or up to the
\* call of fetch for the price command.  One message at a time is modelled:
\* the next arrives when the reply to the last has settled.
MessageCreate(m) ==
    /\ handler.pc = "idle"
    /\ ~handler.replyPending
    /\ messages < MaxMessages
    /\ messages' = messages + 1
    /\ LET h == [NoMessage EXCEPT !.msg = m]
           command == Command(m.content)
       IN  handler' =
             IF IgnoredAuthor(m) THEN h
             ELSE IF ~StartsWith(m.content, Prefix) THEN h
             ELSE IF command = Help THEN Replied(h, HelpReply)
             ELSE IF command = Price THEN [h EXCEPT !.pc = "fetch"]
             ELSE IF command = News THEN Replied(h, NewsReply)
             ELSE h
    /\ UNCHANGED <<ready, timers, newsVars, priceVars, unhandled>>

\* `await fetch(...)` settles (182): a response, or a failure caught at 202
HandlerFetchSettles(ok) ==
    /\ handler.pc = "fetch"
    /\ handler' = IF ok THEN [handler EXCEPT !.pc = "json"]
                  ELSE PriceFailed([handler EXCEPT !.got = "fetchFailed"])
    /\ UNCHANGED <<ready, timers, newsVars, priceVars, messages, unhandled>>

\* `await response.json()` rejects (183), caught at 202
HandlerDecodeFails ==
    /\ handler.pc = "json"
    /\ handler' = PriceFailed([handler EXCEPT !.got = "decodeFailed"])
    /\ UNCHANGED <<ready, timers, newsVars, priceVars, messages, unhandled>>

\* `await response.json()` resolves with data (183-201)
HandlerDecoded(data) ==
    /\ handler.pc = "json"
    /\ LET h == [handler EXCEPT !.got = "decoded", !.data = data]
       IN  handler' =
             IF HasRecord(data)
             THEN IF RenderThrows(data.results[1]) THEN PriceFailed(h)
                  ELSE Replied(h, CardReply(data.results[1]))
             ELSE Replied(h, ApologyReply)
    /\ UNCHANGED <<ready, timers, newsVars, priceVars, messages, unhandled>>

\* The promise of message.reply settles.  A rejection (the message was
\* deleted, the permission to send is missing, the API is down) has no
\* handler: the call sites 167, 198, 200, 204 and 207 have no await and no
\* .catch, so the try of 174 has already been left when it rejects.
ReplySettles(ok) ==
    /\ handler.replyPending
    /\ handler' = [handler EXCEPT !.replyPending = FALSE]
    /\ unhandled' = IF ok THEN unhandled ELSE unhandled + 1
    /\ UNCHANGED <<ready, timers, newsVars, priceVars, messages>>

(* ---------------------------------------------------------------------- *)
(* The ready handler and the timers (37-50)                                *)
(* ---------------------------------------------------------------------- *)
\* client.once('ready'): updateBitcoinPrice() and fetchAndPostNews() each run
\* up to their first await, then the interval and the cron job are installed.
\* Once: the listener registered with once is removed when it first runs.
OnceAgain == TRUE
Once == ~ready

Ready(found) ==
    /\ Once
    /\ ready' = TRUE
    /\ timers' = [interval |-> timers.interval + 1, cron |-> timers.cron + 1]
    /\ StartPrice
    /\ StartNews(cycles + 1, found)
    /\ UNCHANGED cmdVars

\* the interval installed at 45 fires
PriceTick ==
    /\ ready
    /\ timers.interval > 0
    /\ StartPrice
    /\ UNCHANGED <<ready, timers, newsVars, cmdVars>>

\* the cron job installed at 48-49 fires, whatever the earlier invocations
\* are doing
CronTickSerial(found) ==
    /\ ready
    /\ timers.cron > 0
    /\ \A i \in Slots : news[i].pc = "idle"
    /\ cycles < MaxCycles
    /\ StartNews(cycles + 1, found)
    /\ UNCHANGED <<ready, timers, priceVars, cmdVars>>
CronTick(found) ==
    /\ ready
    /\ timers.cron > 0
    /\ cycles < MaxCycles
    /\ StartNews(cycles + 1, found)
    /\ UNCHANGED <<ready, timers, priceVars, cmdVars>>

(* ---------------------------------------------------------------------- *)
(* Specifications                                                          *)
(* ---------------------------------------------------------------------- *)
\* the process after construction: nothing has run
Init ==
    /\ ready = FALSE
    /\ timers = [interval |-> 0, cron |-> 0]
    /\ ledger = <<>>
    /\ news = [i \in Slots |-> NotStarted]
    /\ cycles = 0
    /\ apiCalls = 0
    /\ uptime = 0
    /\ inserted = 0
    /\ insertedAt = <<>>
    /\ presentAdds = 0
    /\ price = "idle"
    /\ presence = NoActivity
    /\ priceUpdates = 0
    /\ priceGot = Ended("none", NullData)
    /\ handler = NoMessage
    /\ messages = 0
    /\ unhandled = 0

\* ledger sizes of a long-running process: one id short of full, so that the
\* ledger fills and then evicts
AgedSizes == {MAX_STORED_NEWS_IDS - 1}

\* a process that has been up for long: the ready handler has run, every
\* callback has returned, and the ledger holds the ids 1..n posted so far.
\* The counters start again at 0 and count from this state on.
InitAged ==
    /\ ready = TRUE
    /\ timers = [interval |-> 1, cron |-> 1]
    /\ \E n \in AgedSizes :
         /\ ledger = Aged(n)
         /\ uptime = n
         /\ inserted = n
    /\ insertedAt = <<>>
    /\ news = [i \in Slots |-> NotStarted]
    /\ cycles = 0
    /\ apiCalls = 0
    /\ presentAdds = 0
    /\ price = "idle"
    /\ presence = NoActivity
    /\ priceUpdates = 0
    /\ priceGot = Ended("none", NullData)
    /\ handler = NoMessage
    /\ messages = 0
    /\ unhandled = 0

NewsStep ==
    \/ \E found \in BOOLEAN : Ready(found)
    \/ \E found \in BOOLEAN : CronTick(found)
    \/ \E i \in Slots, ok \in BOOLEAN : NewsFetchSettles(i, ok)
    \/ \E i \in Slots : NewsDecodeFails(i)
    \/ \E i \in Slots, data \in NewsData : NewsDecoded(i, data)
    \/ \E i \in Slots : NewsSendFails(i)
    \/ \E i \in Slots : NewsSent(i)

PriceStep ==
    \/ PriceTick
    \/ \E ok \in BOOLEAN : PriceFetchSettles(ok)
    \/ PriceDecodeFails
    \/ \E data \in PriceData : PriceDecoded(data)
    \/ \E data \in PriceData : PriceActivityFails(data)

CommandStep ==
    \/ \E m \in Messages : MessageCreate(m)
    \/ \E ok \in BOOLEAN : HandlerFetchSettles(ok)
    \/ HandlerDecodeFails
    \/ \E data \in PriceData : HandlerDecoded(data)
    \/ \E ok \in BOOLEAN : ReplySettles(ok)

Next == NewsStep \/ PriceStep \/ CommandStep

\* the whole program, from construction
Spec == Init /\ [][Next]_vars

\* the news path, from construction or from an aged ledger, while no price
\* response and no message arrives
SpecNews == (Init \/ InitAged) /\ [][NewsStep]_vars

PriceOnlyStep ==
    \/ \E found \in BOOLEAN : Ready(found)
    \/ PriceStep

\* the price path, from construction, while no news response and no message
\* arrives
SpecPrice == Init /\ [][PriceOnlyStep]_vars
\* The whole program from construction in a calm environment: the channel
\* resolves, the news endpoint answers every call with the same two new
\* items and every send succeeds; the currencies endpoint answers with one
\* priced record or fails in transport; the messages are a help command, a
\* price command and a bot's message.  Ticks, responses and messages
\* interleave freely.
CalmFeed == Fresh(1, 2)
CalmPrice == WithResults(<<Priced(65000)>>)
CalmMessages ==
    {[bot |-> FALSE, content |-> Prefix \o Space \o Help],
     [bot |-> FALSE, content |-> Prefix \o Space \o Price],
     [bot |-> TRUE, content |-> Prefix \o Space \o Help]}

CalmStep ==
    \/ Ready(TRUE)
    \/ CronTick(TRUE)
    \/ \E i \in Slots : NewsFetchSettles(i, TRUE)
    \/ \E i \in Slots : NewsDecoded(i, WithResults(CalmFeed))
    \/ \E i \in Slots : NewsSent(i)
    \/ PriceTick
    \/ \E ok \in BOOLEAN : PriceFetchSettles(ok)
    \/ PriceDecoded(CalmPrice)
    \/ \E m \in CalmMessages : MessageCreate(m)
    \/ \E ok \in BOOLEAN : HandlerFetchSettles(ok)
    \/ HandlerDecoded(CalmPrice)
    \/ \E ok \in BOOLEAN : ReplySettles(ok)

SpecCalm == Init /\ [][CalmStep]_vars
\* the command path: messages and the answers of the currencies endpoint
SpecCommands == Init /\ [][CommandStep]_vars


\* Two news cycles in a row, never overlapping, from construction: the
\* channel resolves, every call succeeds, and the endpoint answers every
\* cycle with the list it gave the first one.
SeqFeeds ==
    {Fresh(lo, hi) : lo \in 1..NumFresh, hi \in 1..(NumFresh + 1)}
        \cup {<<Item(F + 2), Item(1), Item(F + 1), Item(2), Item(F + 3)>>,
              <<Item(1), Item(F + 1), Item(2), Item(F + 2)>>,
              <<Item(2), Item(1)>>}

AllReturned == \A i \in Slots : news[i].pc = "idle"

SeqStep ==
    \/ Ready(TRUE)
    \/ AllReturned /\ CronTick(TRUE)
    \/ \E i \in Slots : NewsFetchSettles(i, TRUE)
    \/ \E i \in Slots, r \in SeqFeeds :
         /\ i > 1 => r = news[1].results
         /\ NewsDecoded(i, WithResults(r))
    \/ \E i \in Slots : NewsSent(i)

SpecSeq == Init /\ [][SeqStep]_vars

\* News cycles without end, from construction: the channel resolves, every
\* call and every send succeeds, and the endpoint answers every call with
\* the list it gave the first one, a short list or one longer than the
\* ledger.  The records kept of returned invocations are bounded, so Forget
\* drops them once every invocation has returned: it keeps the ledger, the
\* timers and the list the endpoint gives, and lets the counters start again.
\* Overlapping cycles are explored for the list that fits the ledger; with
\* the long one a tick comes when the invocations before it have returned.
\* A tick comes when an invocation other than the one whose record it takes
\* over has the list, so that the list the endpoint gave stays on record.
LongFeed == Fresh(1, MAX_STORED_NEWS_IDS + NEWS_POSTS_PER_UPDATE + 1)
LiveFeeds == {Fresh(1, NumFresh + 1), LongFeed}

\* the list the endpoint has given so far, <<>> before its first answer
KnownFeed ==
    IF \E i \in Slots : news[i].results # <<>>
    THEN news[CHOOSE i \in Slots : news[i].results # <<>>].results
    ELSE <<>>

LiveDecoded(i) ==
    \E r \in LiveFeeds :
        /\ KnownFeed # <<>> => r = KnownFeed
        /\ NewsDecoded(i, WithResults(r))

LiveTick ==
    /\ AllReturned \/ (KnownFeed # <<>> /\ Len(KnownFeed) <= MAX_STORED_NEWS_IDS)
    /\ \E j \in Slots \ {cycles + 1} : news[j].results # <<>>
    /\ CronTick(TRUE)

Forget ==
    /\ cycles = MaxCycles
    /\ AllReturned
    /\ news' = [i \in Slots |-> [NotStarted EXCEPT !.results = news[i].results]]
    /\ cycles' = 0
    /\ apiCalls' = 0
    /\ uptime' = 0
    /\ inserted' = 0
    /\ insertedAt' = <<>>
    /\ presentAdds' = 0
    /\ UNCHANGED <<ready, timers, ledger, priceVars, cmdVars>>

LiveStep ==
    \/ Ready(TRUE)
    \/ LiveTick
    \/ \E i \in Slots : NewsFetchSettles(i, TRUE)
    \/ \E i \in Slots : LiveDecoded(i)
    \/ \E i \in Slots : NewsSent(i)
    \/ Forget

\* the news timer keeps firing, and every call that is awaited settles
LiveFairness ==
    /\ WF_vars(LiveTick)
    /\ WF_vars(Forget)
    /\ \A i \in Slots :
         /\ WF_vars(NewsFetchSettles(i, TRUE))
         /\ WF_vars(LiveDecoded(i))
         /\ WF_vars(NewsSent(i))

SpecLive == Init /\ [][LiveStep]_vars /\ LiveFairness

(* ---------------------------------------------------------------------- *)
(* Properties                                                              *)
(* ---------------------------------------------------------------------- *)
InFlight(i) == news[i].pc # "idle"

\* C1: between callbacks the ledger never holds more than
\* MAX_STORED_NEWS_IDS ids, whatever the responses and however the
\* invocations of fetchAndPostNews overlap.
C1_LedgerBounded == Len(ledger) <= MAX_STORED_NEWS_IDS

\* the ledger is full, ids have been evicted, and two invocations are in flight
C1_Witness ==
    /\ Len(ledger) = MAX_STORED_NEWS_IDS
    /\ inserted > MAX_STORED_NEWS_IDS
    /\ InFlight(1) /\ InFlight(2)

\* the ids that ever entered the ledger, and when each last did
KnownIds == (1..uptime) \cup DOMAIN insertedAt
InsertedAt(id) == IF id \in DOMAIN insertedAt THEN insertedAt[id] ELSE id

\* the ledger is exactly the MAX_STORED_NEWS_IDS most recently inserted ids,
\* oldest first
LastInserted ==
    LET present == Range(ledger)
    IN  /\ \A id \in KnownIds :
             id \in present <=> inserted - InsertedAt(id) < MAX_STORED_NEWS_IDS
        /\ \A k \in 1..(Len(ledger) - 1) :
             InsertedAt(ledger[k]) < InsertedAt(ledger[k + 1])

\* C2: eviction is strict FIFO.  An id is in the ledger from its insertion
\* until exactly MAX_STORED_NEWS_IDS further ids have been inserted, and the
\* ledger is ordered by insertion: its content and its order, and so the id
\* evicted next, depend on the insertions alone, not on membership tests.
C2_StrictFifo == LastInserted

\* id 1 left the ledger at the MAX_STORED_NEWS_IDS-th insertion after its
\* own, and id 2, one insertion younger, is still there
C2_Witness ==
    /\ uptime >= 2
    /\ inserted = MAX_STORED_NEWS_IDS + 1
    /\ ~LedgerHas(ledger, 1)
    /\ LedgerHas(ledger, 2)
    /\ ledger[1] = 2

\* C3 as stated: a cycle never posts an id that was in the ledger when the
\* cycle began.
C3_NeverPostsStartIds ==
    \A i \in Slots : \A k \in 1..Len(news[i].sent) : news[i].sent[k] \notin news[i].startIds

\* C3, amended: a cycle posts an id that was in the ledger when the cycle
\* began only if the id has been evicted from the ledger since.
C3_PostsStartIdsOnlyIfEvicted ==
    \A i \in Slots : \A k \in 1..Len(news[i].sent) :
        news[i].sent[k] \in news[i].startIds => news[i].sent[k] \in news[i].evicted

\* a cycle that began with id 1 in a ledger one short of full has skipped
\* nothing new, and has posted its new items and then id 1, evicted meanwhile
C3_Witness ==
    \E i \in Slots :
        /\ 1 \in news[i].startIds
        /\ 1 \in news[i].evicted
        /\ news[i].sent = <<F + 1, F + 2, 1>>

\* C4: a cycle never gives add() an id the ledger already holds, also when
\* two invocations interleave at the await on send.
C4_NeverAddsPresent == presentAdds = 0

\* C5: one invocation calls send at most NEWS_POSTS_PER_UPDATE times, so it
\* posts at most that many articles, whatever the response holds.
C5_AtMostCap ==
    \A i \in Slots :
        /\ news[i].sends <= NEWS_POSTS_PER_UPDATE
        /\ Len(news[i].sent) <= NEWS_POSTS_PER_UPDATE

\* an invocation has returned after NEWS_POSTS_PER_UPDATE posts although its
\* response held further unseen items
C5_Witness ==
    \E i \in Slots :
        /\ ~InFlight(i)
        /\ Len(news[i].sent) = NEWS_POSTS_PER_UPDATE
        /\ \E k \in 1..Len(news[i].results) :
             /\ news[i].results[k].id \notin news[i].startIds
             /\ news[i].results[k].id \notin Range(news[i].sent)

\* C6: a cycle gives add() exactly the ids it posted, in that order, and an
\* id enters the ledger only in the step that posts it: skipped items and
\* items left over after the cap do not enter it.
C6_AddsExactlyPosted ==
    /\ [](\A i \in Slots : news[i].added = news[i].sent)
    /\ [][\A x \in Range(ledger') \ Range(ledger) :
            \E i \in Slots : news'[i].sent = Append(news[i].sent, x)]_vars

\* a cycle has returned with three posts; the fourth new item of its
\* response is not in the ledger, and the item it skipped as seen was not
\* added again
C6_Witness ==
    \E i \in Slots :
        /\ ~InFlight(i)
        /\ news[i].results = Fresh(1, NumFresh + 1)
        /\ F + 1 \in news[i].startIds
        /\ news[i].sent = <<F + 2, F + 3, F + 4>>
        /\ ~LedgerHas(ledger, F + 5)

\* the ids of the items lo..hi of the list r
IdsOf(r, lo, hi) == [k \in 1..(hi - lo + 1) |-> r[lo + k - 1].id]

\* C7: when non-overlapping cycles from an empty ledger all receive the same
\* list of n distinct items and every send succeeds, cycle k posts the items
\* 3(k-1)+1 .. min(3k, n) of the list and the ledger then holds the first
\* min(3k, n) ids: each cycle posts what is left, and nothing twice.
C7_SameFeed ==
    LET r == news[1].results
        n == Len(r)
        upTo(k) == Min(NEWS_POSTS_PER_UPDATE * k, n)
    IN  \A k \in 1..cycles :
            ~InFlight(k) =>
                /\ news[k].sent = IdsOf(r, upTo(k - 1) + 1, upTo(k))
                /\ k = cycles => ledger = IdsOf(r, 1, upTo(k))

\* the list has 5 items: the first cycle posted 3, the second the other 2
C7_Witness ==
    /\ cycles = 2
    /\ AllReturned
    /\ Len(news[1].results) = 5
    /\ Len(news[1].sent) = 3
    /\ Len(news[2].sent) = 2
    /\ Len(ledger) = 5


\* the contents the handler answers, written out
Answered ==
    { <<"!", "c", "r", "y", "p", "t", "o", " ", "h", "e", "l", "p">>,
      <<"!", "c", "r", "y", "p", "t", "o", " ", "p", "r", "i", "c", "e">>,
      <<"!", "c", "r", "y", "p", "t", "o", " ", "n", "e", "w", "s">>,
      <<"!", "c", "r", "y", "p", "t", "o", "h", "e", "l", "p">>,
      <<"!", "c", "r", "y", "p", "t", "o", " ", "p", "r", "i", "c", "e", " ">>,
      <<"!", "c", "r", "y", "p", "t", "o", "\n", "h", "e", "l", "p">>,
      <<"!", "c", "r", "y", "p", "t", "o", " ", "\t", "n", "e", "w", "s", "\n">> }

\* C8: once the handler has returned, it has replied exactly once if the
\* author is not a bot and the content is the prefix followed, after
\* trimming, by help, price or news, and not at all otherwise; it never
\* replies more than once.
C8_RepliesIffCommand ==
    /\ Len(handler.replies) <= 1
    /\ handler.pc = "idle" =>
         Len(handler.replies) =
             IF ~handler.msg.bot /\ handler.msg.content \in Answered THEN 1 ELSE 0

\* a bot's "!crypto help" got no reply
C8_WitnessBot ==
    /\ messages > 0
    /\ handler.pc = "idle"
    /\ handler.msg.bot
    /\ handler.msg.content \in Answered
    /\ handler.replies = <<>>

\* a user's "!crypto \tnews\n" got its reply
C8_Witness ==
    /\ handler.pc = "idle"
    /\ ~handler.msg.bot
    /\ handler.msg.content = <<"!", "c", "r", "y", "p", "t", "o", " ", "\t", "n", "e", "w", "s", "\n">>
    /\ handler.replies = <<NewsReply>>

\* the handler ran the price command for its message
PriceCommand ==
    /\ ~handler.msg.bot
    /\ handler.msg.content
         \in { <<"!", "c", "r", "y", "p", "t", "o", " ", "p", "r", "i", "c", "e">>,
               <<"!", "c", "r", "y", "p", "t", "o", " ", "p", "r", "i", "c", "e", " ">> }

\* C9: for the price command the handler, once returned, has replied exactly
\* once: with the card of the first record when the fetch decoded to a
\* non-empty results array whose first record has a price_usd, and with the
\* apology in every other case; no exception has left the handler.
C9_PriceReply ==
    (PriceCommand /\ handler.pc = "idle") =>
        /\ ~handler.escaped
        /\ handler.replies =
             IF /\ handler.got = "decoded"
                /\ ~handler.data.isNull
                /\ handler.data.hasResults
                /\ handler.data.results # <<>>
                /\ handler.data.results[1].hasPrice
             THEN <<[kind |-> "card", usd |-> handler.data.results[1].price_usd]>>
             ELSE <<[kind |-> "apology", usd |-> 0]>>

\* the record had no price_usd: rendering threw, and the apology went out
C9_Witness ==
    /\ PriceCommand
    /\ handler.pc = "idle"
    /\ handler.got = "decoded"
    /\ handler.data = WithResults(<<Unpriced>>)
    /\ handler.replies = <<ApologyReply>>

\* C10: a cycle that does not resolve the news channel ends in the step that
\* starts it: that step sends nothing, leaves the ledger as it was and does
\* not call the news endpoint, and the cycle never does any of these.
C10_AbortsWithoutChannel ==
    /\ [](\A i \in Slots :
            (news[i].no # 0 /\ ~news[i].found) =>
                /\ ~InFlight(i)
                /\ news[i].calls = 0
                /\ news[i].sends = 0
                /\ news[i].sent = <<>>
                /\ news[i].added = <<>>)
    /\ [][\A i \in Slots :
            (news'[i].no # news[i].no /\ ~news'[i].found) =>
                /\ ledger' = ledger
                /\ apiCalls' = apiCalls
                /\ \A j \in Slots : news'[j].sent = news[j].sent]_vars

\* the second cycle found no channel, after a first one that posted
C10_Witness ==
    /\ cycles = 2
    /\ ~news[2].found
    /\ news[2].calls = 0
    /\ news[1].sent # <<>>
    /\ apiCalls = 1

\* C11: an invocation of fetchAndPostNews calls the news endpoint at most
\* once.  When the call fails in transport, the body does not decode, or the
\* decoded value has no results to go through, the invocation ends in that
\* step: the step sends nothing, leaves the ledger as it was and makes no
\* further call, the invocation has posted and added nothing, and no
\* rejection is left unhandled.
C11_OneCallNoRetry ==
    /\ [](\A i \in Slots :
            /\ news[i].calls <= 1
            /\ (news[i].calls = 1 /\ ~InFlight(i) /\ news[i].results = <<>>) =>
                  /\ news[i].sends = 0
                  /\ news[i].sent = <<>>
                  /\ news[i].added = <<>>)
    /\ [](unhandled = 0)
    /\ [][\A i \in Slots :
            (news[i].pc \in {"fetch", "json"} /\ news'[i].pc = "idle"
                /\ news'[i].results = <<>>) =>
                /\ ledger' = ledger
                /\ apiCalls' = apiCalls
                /\ news'[i].calls = news[i].calls
                /\ \A j \in Slots : news'[j].sent = news[j].sent]_vars

\* the second cycle called the endpoint once and got nothing it could use,
\* after a first one that posted
C11_Witness ==
    /\ cycles = 2
    /\ news[1].sent # <<>>
    /\ news[2].found
    /\ news[2].calls = 1
    /\ ~InFlight(2)
    /\ news[2].results = <<>>
    /\ ledger # <<>>

\* the invocation decoded a non-empty results array whose first record has a
\* price_usd that is not 0
DecodedAPrice(g) ==
    /\ g.got = "decoded"
    /\ ~g.data.isNull
    /\ g.data.hasResults
    /\ g.data.results # <<>>
    /\ g.data.results[1].hasPrice
    /\ g.data.results[1].price_usd # 0

\* C12: a step changes the presence only when it is the step in which
\* updateBitcoinPrice decoded a non-empty results array whose first record
\* carries a price, and it sets the presence to that price; an invocation
\* that ends on a failed fetch, a body that does not decode, missing or
\* empty results, or a first record without a price leaves the presence
\* exactly as it was, and no rejection is left unhandled.
C12_PresenceOnlyWithPrice ==
    /\ [][/\ presence' # presence =>
               /\ price = "json"
               /\ DecodedAPrice(priceGot')
               /\ presence' = [set |-> TRUE,
                               usd |-> priceGot'.data.results[1].price_usd]
          /\ (price # "idle" /\ price' = "idle" /\ ~DecodedAPrice(priceGot')) =>
               presence' = presence]_vars
    /\ [](unhandled = 0)

\* the first update set the presence; the second decoded a record without a
\* price and left it
C12_Witness ==
    /\ priceUpdates = 2
    /\ price = "idle"
    /\ priceGot = Ended("decoded", WithResults(<<Unpriced>>))
    /\ presence = [set |-> TRUE, usd |-> 65000]

\* C13: before the ready handler has run nothing has started: no price
\* update, no news cycle, no timer.  The step in which it runs starts
\* exactly one price update and exactly one news cycle and installs the
\* interval and the cron job once each.  It runs at most once: from then on
\* ready stays set and the timers stay installed exactly once each, however
\* many ticks follow.
C13_StartsOnceAtReady ==
    /\ [](~ready =>
            /\ cycles = 0
            /\ priceUpdates = 0
            /\ price = "idle"
            /\ \A i \in Slots : news[i] = NotStarted
            /\ timers = [interval |-> 0, cron |-> 0])
    /\ [](ready => timers = [interval |-> 1, cron |-> 1])
    /\ [][/\ (~ready /\ ready') =>
               /\ priceUpdates' = 1
               /\ price' = "fetch"
               /\ cycles' = 1
               /\ news'[1].no = 1
               /\ timers' = [interval |-> 1, cron |-> 1]
          /\ ready => (ready' /\ timers' = timers)]_vars

\* after the ready handler, a tick of each timer has started a second price
\* update and a second news cycle, and each timer is still installed once
C13_Witness ==
    /\ ready
    /\ priceUpdates = 2
    /\ cycles = 2
    /\ timers = [interval |-> 1, cron |-> 1]

\* C14: no failure of an external call leaves the handler that made the call:
\* no exception escapes the messageCreate handler and no rejected promise,
\* that of a message.reply for the help, price and news commands and for the
\* apology included, is left without a handler.
C14_NoFailureUnhandled ==
    /\ ~handler.escaped
    /\ unhandled = 0

\* the position in the results array r of the item with this id
Position(r, id) == CHOOSE k \in 1..Len(r) : r[k].id = id

\* C15: within one cycle the articles are sent in the order of the response:
\* those sent so far lie at increasing positions of the results array, the
\* one being sent lies after all of them, and a cycle has at most one send
\* outstanding, so each send has completed before the next one starts.
C15_SentInResponseOrder ==
    \A i \in Slots :
        LET n == news[i]
        IN  /\ \A a, b \in 1..Len(n.sent) :
                 a < b => Position(n.results, n.sent[a]) < Position(n.results, n.sent[b])
            /\ \A a \in 1..Len(n.sent) :
                 /\ \E k \in 1..Len(n.results) : n.results[k].id = n.sent[a]
                 /\ n.pc = "send" => Position(n.results, n.sent[a]) < n.idx
            /\ n.sends = Len(n.sent) + (IF n.pc = "send" THEN 1 ELSE 0)
                 \/ (n.pc = "idle" /\ n.sends = Len(n.sent) + 1)

\* the first cycle sent three items one after the other while the second
\* cycle has a send outstanding
C15_Witness ==
    /\ news[1].sent = <<F + 1, F + 2, F + 3>>
    /\ news[1].sends = 3
    /\ news[2].pc = "send"

\* C16: a tick is not held back by a callback that is still awaiting.  Once
\* the timers are installed the cron tick can fire whatever the earlier
\* invocations of fetchAndPostNews are doing, and the price tick can fire
\* whatever they and the message handler are doing (up to the numbers of
\* cycles and updates explored; one price update at a time is modelled).
C16_TicksNotSuppressed ==
    /\ (ready /\ cycles < MaxCycles) => ENABLED CronTick(TRUE)
    /\ (ready /\ price = "idle" /\ priceUpdates < MaxPriceUpdates) =>
          ENABLED PriceTick

\* two invocations of fetchAndPostNews are in flight, both awaiting a send,
\* and a price update is in flight with them
C16_Witness ==
    /\ news[1].pc = "send"
    /\ news[2].pc = "send"
    /\ price = "fetch"
    /\ priceUpdates = 2

EverEvicted == UNION {news[k].evicted : k \in Slots}

\* C18: an id is sent a second time, by the same cycle or by another one
\* that overlaps it or follows it, only if it has been evicted from the
\* ledger; while nothing has been evicted, no id has been sent twice.
C18_ResentOnlyIfEvicted ==
    \A i, j \in Slots :
        \A a \in 1..Len(news[i].sent), b \in 1..Len(news[j].sent) :
            (<<i, a>> # <<j, b>> /\ news[i].sent[a] = news[j].sent[b]) =>
                news[i].sent[a] \in EverEvicted

\* the ids that have been posted: the ones of an aged ledger, and the ones a
\* cycle has sent
Posted == (1..uptime) \cup UNION {Range(news[k].sent) : k \in Slots}

\* the step in which the send of invocation i rejects
SendFailed(i) ==
    /\ news[i].pc = "send"
    /\ news'[i].pc = "idle"
    /\ news'[i].sent = news[i].sent

\* C19: an id enters the ledger only in the step in which its send
\* resolves, so every id in the ledger has been posted.  The step in which
\* a send rejects adds nothing and ends the cycle without a further send,
\* the ids the cycle posted before stay in the ledger, and after it the
\* item whose send failed is not in the ledger, so that the next cycle
\* finds it unseen.
C19_FailedSendLeavesUnseen ==
    /\ [](Range(ledger) \subseteq Posted)
    /\ [][/\ \A x \in Range(ledger') \ Range(ledger) :
               \E i \in Slots :
                   /\ news[i].pc = "send"
                   /\ news[i].results[news[i].idx].id = x
                   /\ Len(news'[i].sent) = Len(news[i].sent) + 1
          /\ \A i \in Slots :
               SendFailed(i) =>
                   /\ news'[i].added = news[i].added
                   /\ news'[i].sends = news[i].sends
                   /\ Range(news[i].sent) \cap Range(ledger) \subseteq Range(ledger')
                   /\ news[i].results[news[i].idx].id \notin Range(ledger')]_vars

\* whether a cycle has sent the id x, and whether the endpoint gives the
\* list r
PostedNow(x) == \E i \in Slots : x \in Range(news[i].sent)
FeedIs(r) == KnownFeed = r

\* every invocation of fetchAndPostNews that is in flight returns
CyclesTerminate == \A i \in Slots : InFlight(i) ~> ~InFlight(i)

\* C20 as stated: when the channel resolves, every call and send succeeds,
\* the endpoint gives the same list of distinct items on every call and the
\* news timer keeps firing, every item of the list is eventually posted at
\* least once, and every cycle terminates.  A cycle goes through the list in
\* order and skips only what the ledger holds, so the last item is the last
\* to be posted for the first time: the claim is stated for the last item of
\* each list.
C20_AllEventuallyPosted ==
    /\ \A r \in LiveFeeds : (<>FeedIs(r)) => <>PostedNow(r[Len(r)].id)
    /\ CyclesTerminate

\* The form of C20 that holds, for lists that fit the ledger: under the same
\* conditions, when the list has at most MAX_STORED_NEWS_IDS items, the
\* ledger eventually holds
\* every item of the list, and an id enters the ledger only in the step in
\* which a cycle has posted it, so every item has been posted at least once;
\* and every cycle terminates, whatever the length of the list.
C20_ShortListEventuallyPosted ==
    /\ (<>(KnownFeed # <<>> /\ Len(KnownFeed) <= MAX_STORED_NEWS_IDS)) =>
          <>(/\ KnownFeed # <<>>
             /\ \A k \in 1..Len(KnownFeed) : LedgerHas(ledger, KnownFeed[k].id))
    /\ [][\A x \in Range(ledger') \ Range(ledger) :
            \E i \in Slots : /\ news[i].pc = "send"
                             /\ PostedNow(x)']_vars
    /\ CyclesTerminate

\* the endpoint gives the short list, several cycles have run, and the
\* ledger holds every item of the list
C20_Witness ==
    /\ KnownFeed = Fresh(1, NumFresh + 1)
    /\ AllReturned
    /\ \A k \in 1..Len(KnownFeed) : LedgerHas(ledger, KnownFeed[k].id)

====
